---- MODULE Spec2Model ----
(***************************************************************************)
(* Collision Creator (src/__init__.py): a Blender add-on whose operator    *)
(* create_collision_block builds a convex hull or a bounding box around    *)
(* the working vertices of the active mesh object.                         *)
(*                                                                         *)
(* Coordinates are exact rationals stored as integers in half units (the   *)
(* stored value is twice the coordinate), so that the centre (min+max)/2   *)
(* and the unit cube's corners centre +- 0.5 are integers.  Rotations are  *)
(* 3x3 matrices with integer entries (quarter turns and the signed         *)
(* permutations numpy.linalg.eigh returns for a diagonal covariance).      *)
(* Scale is uniform and is +1 or -1.  Floating point rounding is not       *)
(* modelled.                                                               *)
(***************************************************************************)
EXTENDS Integers, Sequences, FiniteSets, TLC

VARIABLES
    objects,    \* bpy.data.objects: object id -> object
    materials,  \* names in bpy.data.materials
    mode,       \* bpy.context.mode
    active,     \* id of context.active_object, or None
    selected,   \* ids of bpy.context.selected_objects
    nextId,     \* the id the next new object gets
    props,      \* context.scene.collision_block_props (lines 17-68)
    calls,      \* invocations of create_collision_block so far
    last,       \* what the last operation was given and what it did
    generated   \* the block numbers computed in active-name mode, in order

vars == <<objects, materials, mode, active, selected, nextId, props, calls,
          last, generated>>

----------------------------------------------------------------------------
(* Bounds of the model                                                     *)

\* invocations of create_collision_block in one behaviour
MaxCalls == 1
\* invocations in one behaviour of the naming specification
MaxNamedCalls == 3

----------------------------------------------------------------------------
(* Vectors and matrices (mathutils.Vector, mathutils.Matrix)               *)

Axes == 1..3

\* Python's None, for context.active_object and for the new object of an
\* invocation that made none
None == 0

Zero3 == <<0, 0, 0>>

VAdd(u, v) == [k \in Axes |-> u[k] + v[k]]

VSub(u, v) == [k \in Axes |-> u[k] - v[k]]

VScale(s, v) == [k \in Axes |-> s * v[k]]

Dot(u, v) == u[1] * v[1] + u[2] * v[2] + u[3] * v[3]

Cross(u, v) ==
    << u[2] * v[3] - u[3] * v[2],
       u[3] * v[1] - u[1] * v[3],
       u[1] * v[2] - u[2] * v[1] >>

Identity == << <<1, 0, 0>>, <<0, 1, 0>>, <<0, 0, 1>> >>

\* a quarter turn about Z: Euler angles (0, 0, pi/2)
QuarterZ == << <<0, -1, 0>>, <<1, 0, 0>>, <<0, 0, 1>> >>

MatVec(M, v) == [i \in Axes |-> Dot(M[i], v)]

Transpose(M) == [i \in Axes |-> [j \in Axes |-> M[j][i]]]

MatNeg(M) == [i \in Axes |-> [j \in Axes |-> 0 - M[i][j]]]

Det3(M) == Dot(M[1], Cross(M[2], M[3]))

\* exact halving; every use is on an even number (see ExactArithmetic)
Half(n) == n \div 2

SeqToSet(s) == {s[i] : i \in 1..Len(s)}

MinOf(S) == CHOOSE x \in S : \A y \in S : x <= y

MaxOf(S) == CHOOSE x \in S : \A y \in S : x >= y

\* np.min(coords, axis=0) / np.max(coords, axis=0)
MinCorner(pts) == [k \in Axes |-> MinOf({pts[i][k] : i \in 1..Len(pts)})]

MaxCorner(pts) == [k \in Axes |-> MaxOf({pts[i][k] : i \in 1..Len(pts)})]

\* centre of the bounding box of a non-empty point sequence
BoundsCenter(pts) ==
    [k \in Axes |-> Half(MinCorner(pts)[k] + MaxCorner(pts)[k])]

----------------------------------------------------------------------------
(* Objects: obj.matrix_world = translation * rotation * scale              *)

\* obj.matrix_world @ v
ToWorld(o, v) == VAdd(o.loc, VScale(o.scale, MatVec(o.rot, v)))

\* obj.matrix_world.inverted() @ g
FromWorld(o, g) == VScale(o.scale, MatVec(Transpose(o.rot), VSub(g, o.loc)))

WorldVerts(o) == [i \in 1..Len(o.verts) |-> ToWorld(o, o.verts[i])]

----------------------------------------------------------------------------
(* bmesh: vertices, edges and faces of a mesh under construction           *)

\* bmesh.new() followed by bm.verts.new(v) for every v (lines 142-148)
BMeshFromVerts(pts) == [verts |-> pts, edges |-> {}, faces |-> {}]

\* signed volume of the tetrahedron a b c d (6 times)
Orient(a, b, c, d) == Dot(Cross(VSub(b, a), VSub(c, a)), VSub(d, a))

Collinear(a, b, c) == Cross(VSub(b, a), VSub(c, a)) = Zero3

\* the plane through a b c has every point of pts weakly on one side
Supporting(pts, a, b, c) ==
    \/ \A i \in 1..Len(pts) : Orient(a, b, c, pts[i]) >= 0
    \/ \A i \in 1..Len(pts) : Orient(a, b, c, pts[i]) <= 0

\* The triangles of the convex hull of pts, as sets of vertex indices: the
\* non-degenerate triangles whose plane supports the point set.  A planar
\* facet with more than three points is covered by all its triangles.
HullTriangles(pts) ==
    { {i, j, k} : <<i, j, k>> \in
        { t \in (1..Len(pts)) \X (1..Len(pts)) \X (1..Len(pts)) :
            /\ t[1] < t[2] /\ t[2] < t[3]
            /\ ~Collinear(pts[t[1]], pts[t[2]], pts[t[3]])
            /\ Supporting(pts, pts[t[1]], pts[t[2]], pts[t[3]]) } }

EdgesOfFaces(faces) ==
    UNION { { {i, j} : <<i, j>> \in {p \in f \X f : p[1] < p[2]} } : f \in faces }

\* bmesh.ops.convex_hull(bm, input=bm.verts): hull faces and their edges are
\* added; input vertices inside the hull are left in place
ConvexHullOp(bm) ==
    LET tris == HullTriangles(bm.verts)
    IN  [bm EXCEPT !.faces = bm.faces \cup tris,
                   !.edges = bm.edges \cup EdgesOfFaces(tris)]

\* v.link_edges
LinkEdges(bm, i) == {e \in bm.edges : i \in e}

\* v.link_faces
LinkFaces(m, i) == {f \in m.faces : i \in f}

\* a filter that finds nothing to delete
IsolatedVertsNone(bm) == {}

\* the geom list of line 154
IsolatedVerts(bm) == {i \in 1..Len(bm.verts) : LinkEdges(bm, i) = {}}

\* bmesh.ops.delete(bm, geom=D, context='VERTS'): the vertices go, with the
\* edges and faces that use them; the remaining vertices are renumbered
DeleteVerts(bm, D) ==
    LET n      == Len(bm.verts)
        keep   == (1..n) \ D
        idx(i) == Cardinality({j \in keep : j <= i})
        nth(k) == CHOOSE i \in keep : idx(i) = k
        ren(S) == {idx(i) : i \in S}
    IN  [verts |-> [k \in 1..Cardinality(keep) |-> bm.verts[nth(k)]],
         edges |-> {ren(e) : e \in {x \in bm.edges : x \cap D = {}}},
         faces |-> {ren(f) : f \in {x \in bm.faces : x \cap D = {}}}]

\* create_convex_hull up to bm.to_mesh (lines 142-158)
ConvexHullMesh(pts) ==
    LET hull == ConvexHullOp(BMeshFromVerts(pts))
    IN  DeleteVerts(hull, IsolatedVerts(hull))

----------------------------------------------------------------------------
(* compute_pca_orientation                                                 *)

RECURSIVE SumTo(_, _)
SumTo(f, n) == IF n = 0 THEN 0 ELSE f[n] + SumTo(f, n - 1)

\* N(N-1) times np.cov(coords_centered.T)[a][b]
Cov(pts, a, b) ==
    LET n == Len(pts)
    IN  n * SumTo([i \in 1..n |-> pts[i][a] * pts[i][b]], n)
          - SumTo([i \in 1..n |-> pts[i][a]], n) * SumTo([i \in 1..n |-> pts[i][b]], n)

DiagonalCov(pts) == \A a \in Axes, b \in Axes : a # b => Cov(pts, a, b) = 0

\* eigh fixes an eigenvector only up to sign: one choice of signs of each
\* determinant is followed
EigenSigns == { <<1, 1, 1>>, <<1, 1, -1>> }

AxisOrders == {p \in [Axes -> Axes] : \A a \in Axes : \E j \in Axes : p[j] = a}

\* The matrices np.linalg.eigh can return for a diagonal covariance: the
\* columns are unit axis vectors in ascending order of eigenvalue (equal
\* eigenvalues in any order), each up to sign.
PcaOrientations(pts) ==
    IF ~DiagonalCov(pts) THEN {}
    ELSE { [i \in Axes |-> [j \in Axes |-> IF i = p[j] THEN sg[j] ELSE 0]] :
             <<p, sg>> \in
               { x \in AxisOrders \X EigenSigns :
                   /\ Cov(pts, x[1][1], x[1][1]) <= Cov(pts, x[1][2], x[1][2])
                   /\ Cov(pts, x[1][2], x[1][2]) <= Cov(pts, x[1][3], x[1][3]) } }

----------------------------------------------------------------------------
(* Names.  A name is a sequence of tokens; no token is a proper prefix of  *)
(* another, so str.startswith on a one-token prefix is a test of the first *)
(* token.                                                                  *)

DigitStr == <<"0", "1", "2", "3", "4", "5", "6", "7", "8", "9">>

\* str(n).zfill(2), for n < 100
Zfill2(n) == <<DigitStr[(n \div 10) + 1], DigitStr[(n % 10) + 1]>>

\* name.startswith(p)
StartsWith(name, p) == Len(name) >= 1 /\ name[1] = p

MaterialName == "CollisionBlockMaterial"

\* generate_block_name (lines 80-85)
generate_block_name(obj_name, use_selected_mesh_name, prefix, custom_name, block_number) ==
    IF use_selected_mesh_name = "true"
    THEN <<prefix>> \o obj_name \o <<"_">> \o Zfill2(block_number)
    ELSE <<custom_name>>

\* line 191: the objects whose name starts with the prefix (or with the
\* custom name), plus one
BlockNumber(objs, use_selected_mesh_name, prefix, custom_name) ==
    Cardinality({i \in DOMAIN objs :
        StartsWith(objs[i].name,
                   IF use_selected_mesh_name = "false" THEN custom_name ELSE prefix)}) + 1

\* The host keeps object names unique: a name in use gets a numeric suffix.
UniqueName(objs, self, name) ==
    LET used == {objs[i].name : i \in (DOMAIN objs) \ {self}}
        suffixed(k) == name \o <<".", "0">> \o Zfill2(k)
    IN  IF name \notin used THEN name
        ELSE suffixed(MinOf({k \in 1..(Cardinality(used) + 1) : suffixed(k) \notin used}))

----------------------------------------------------------------------------
(* The host scene.  A scene value s gathers the variables, so that the     *)
(* steps of a handler compose.                                             *)

Extend(objs, id, o) == [i \in (DOMAIN objs) \cup {id} |-> IF i = id THEN o ELSE objs[i]]

IsMesh(o) == o.type = "MESH"

\* bpy.ops.object.mode_set
ModeSet(s, m) == [s EXCEPT !.mode = m]

\* The corners of primitive_cube_add(size=1): centre +- 0.5 on every axis
CubeVerts ==
    << <<-1, -1, -1>>, <<-1, -1, 1>>, <<-1, 1, -1>>, <<-1, 1, 1>>,
       <<1, -1, -1>>,  <<1, -1, 1>>,  <<1, 1, -1>>,  <<1, 1, 1>> >>

CubeFaces ==
    { {i \in 1..8 : CubeVerts[i][k] = sg} : <<k, sg>> \in Axes \X {-1, 1} }

CubeEdges ==
    { e \in SUBSET (1..8) :
        /\ Cardinality(e) = 2
        /\ Cardinality({k \in Axes : \E i \in e, j \in e : CubeVerts[i][k] # CubeVerts[j][k]}) = 1 }

\* bpy.ops.mesh.primitive_cube_add(size=1, location=center), line 217: the
\* cube is the only selected object and the active one
PrimitiveCubeAdd(s, center) ==
    LET id == s.nextId
        o  == [name |-> UniqueName(s.objects, id, <<"Cube">>), type |-> "MESH",
               verts |-> CubeVerts, edges |-> CubeEdges, faces |-> CubeFaces,
               vselect |-> {}, loc |-> center, rot |-> Identity, scale |-> 1,
               mats |-> <<>>]
    IN  [s EXCEPT !.objects = Extend(s.objects, id, o), !.selected = {id},
                  !.active = id, !.nextId = id + 1]

\* bpy.data.objects.new("Convex_Hull", mesh) and collection.objects.link
\* (lines 157-162): the object is linked, neither selected nor active
ObjectsNewLinked(s, mesh) ==
    LET id == s.nextId
        o  == [name |-> UniqueName(s.objects, id, <<"Convex_Hull">>), type |-> "MESH",
               verts |-> mesh.verts, edges |-> mesh.edges, faces |-> mesh.faces,
               vselect |-> {}, loc |-> Zero3, rot |-> Identity, scale |-> 1,
               mats |-> <<>>]
    IN  [s EXCEPT !.objects = Extend(s.objects, id, o), !.nextId = id + 1]

\* obj.matrix_world = M for a 4x4 made of a 3x3 (lines 203, 209): the host
\* decomposes the matrix into location, rotation and scale; a matrix of
\* negative determinant gives the negated rotation and a negative scale
MatrixWorldSet(o, M) ==
    IF Det3(M) < 0
    THEN [o EXCEPT !.loc = Zero3, !.rot = MatNeg(M), !.scale = -1]
    ELSE [o EXCEPT !.loc = Zero3, !.rot = M, !.scale = 1]

\* obj.name = name
Rename(s, id, name) ==
    [s EXCEPT !.objects[id].name = UniqueName(s.objects, id, name)]

\* bpy.ops.object.transform_apply(location=True, rotation=True), line 125:
\* every selected object has its transform written into its vertices and
\* reset to the identity
TransformApplyOne(o) ==
    [o EXCEPT !.verts = WorldVerts(o), !.loc = Zero3, !.rot = Identity, !.scale = 1]

TransformApply(s) ==
    [s EXCEPT !.objects =
        [i \in DOMAIN s.objects |->
            IF i \in s.selected /\ IsMesh(s.objects[i])
            THEN TransformApplyOne(s.objects[i]) ELSE s.objects[i]]]

\* the centre that origin_set(type='ORIGIN_GEOMETRY', center='BOUNDS') moves
\* the origin to, in the object's local frame
OriginShift(o) == IF Len(o.verts) = 0 THEN Zero3 ELSE BoundsCenter(o.verts)

\* an origin move that forgets to shift the vertices back
OriginSetOneKeepVerts(o) ==
    [o EXCEPT !.loc = VAdd(o.loc, VScale(o.scale, MatVec(o.rot, OriginShift(o))))]

OriginSetOne(o) ==
    LET c == OriginShift(o)
    IN  [o EXCEPT !.verts = [i \in 1..Len(o.verts) |-> VSub(o.verts[i], c)],
                  !.loc = VAdd(o.loc, VScale(o.scale, MatVec(o.rot, c)))]

\* bpy.ops.object.origin_set, line 138: acts on every selected object
OriginSet(s) ==
    [s EXCEPT !.objects =
        [i \in DOMAIN s.objects |->
            IF i \in s.selected /\ IsMesh(s.objects[i])
            THEN OriginSetOne(s.objects[i]) ELSE s.objects[i]]]

----------------------------------------------------------------------------
(* The functions of the add-on                                             *)

\* defaults of mesh_prefix and custom_name (lines 47 and 41)
Prefix == "UCX_"

CustomName == "CollisionBlock"

\* get_selected_vertices (lines 70-78), in world coordinates
get_selected_vertices(s, obj) ==
    LET o == s.objects[obj]
        n == Len(o.verts)
        pick(k) == CHOOSE i \in o.vselect :
                       Cardinality({j \in o.vselect : j <= i}) = k
    IN  IF s.mode = "EDIT_MESH"
        THEN [k \in 1..Cardinality(o.vselect) |-> ToWorld(o, o.verts[pick(k)])]
        ELSE IF s.mode = "OBJECT"
        THEN [i \in 1..n |-> ToWorld(o, o.verts[i])]
        ELSE <<>>

\* create_material_if_needed (lines 97-112)
create_material_if_needed(s) ==
    IF MaterialName \in s.materials THEN s
    ELSE [s EXCEPT !.materials = s.materials \cup {MaterialName}]

\* apply_material (lines 114-119)
apply_material(s, obj, material) ==
    LET m == s.objects[obj].mats
    IN  [s EXCEPT !.objects[obj].mats =
            IF Len(m) > 0 THEN [m EXCEPT ![1] = material] ELSE Append(m, material)]

\* apply_scale_offset_rotation (lines 121-125)
apply_scale_offset_rotation(s, block, offset, rotation) ==
    TransformApply(
        [s EXCEPT !.objects[block].loc = VAdd(s.objects[block].loc, offset),
                  !.objects[block].rot = rotation])

\* move_origin_to_geometry_center (lines 127-138)
move_origin_to_geometry_center(s, block) ==
    LET s1 == [s EXCEPT !.active = block, !.selected = s.selected \cup {block}]
        s2 == IF s1.mode # "OBJECT" THEN ModeSet(s1, "OBJECT") ELSE s1
    IN  OriginSet(s2)

\* create_convex_hull (lines 140-163); the new object is s.nextId
create_convex_hull(s, selected_verts) ==
    ObjectsNewLinked(s, ConvexHullMesh(selected_verts))

\* the loop body with v.co = global_co: the world position written back
\* without the inverse of matrix_world
SnapVertexNoInverse(o, v, center, lo, hi) ==
    LET g == ToWorld(o, v)
    IN  [k \in Axes |-> IF g[k] < center[k] THEN lo[k] ELSE hi[k]]

\* the loop of lines 223-228 on one vertex of the cube
SnapVertex(o, v, center, lo, hi) ==
    LET g    == ToWorld(o, v)
        snap == [k \in Axes |-> IF g[k] < center[k] THEN lo[k] ELSE hi[k]]
    IN  FromWorld(o, snap)

\* the 'box' branch (lines 214-232) before the rename
BuildBox(s, selected_verts) ==
    LET lo     == MinCorner(selected_verts)
        hi     == MaxCorner(selected_verts)
        center == [k \in Axes |-> Half(lo[k] + hi[k])]
        s1     == PrimitiveCubeAdd(ModeSet(s, "OBJECT"), center)
        id     == s1.active
        o      == s1.objects[id]
    IN  [s1 EXCEPT !.objects[id].verts =
            [i \in 1..Len(o.verts) |-> SnapVertex(o, o.verts[i], center, lo, hi)]]

\* the 'convex' branch (lines 197-212) before the rename
BuildConvex(s, selected_verts, orientation) ==
    LET s1 == IF s.mode # "OBJECT" THEN ModeSet(s, "OBJECT") ELSE s
        id == s1.nextId
        s2 == create_convex_hull(s1, selected_verts)
    IN  [s2 EXCEPT !.objects[id] = MatrixWorldSet(s2.objects[id], orientation)]

\* lines 234-253 of create_collision_block, for the new object block
Place(s, block, offset, rotation, auto_focus, previous_selection, active_obj, current_mode) ==
    LET s1 == apply_material(create_material_if_needed(s), block, MaterialName)
        s2 == apply_scale_offset_rotation(s1, block, offset, rotation)
        s3 == move_origin_to_geometry_center(s2, block)
        s4 == IF auto_focus
              THEN [s3 EXCEPT !.selected = {block}, !.active = block]
              ELSE [s3 EXCEPT !.selected = previous_selection, !.active = active_obj]
    IN  IF current_mode = "EDIT_MESH" THEN ModeSet(s4, "EDIT_MESH") ELSE s4

----------------------------------------------------------------------------
(* create_collision_block (lines 174-253)                                  *)

Scene == [objects |-> objects, materials |-> materials, mode |-> mode,
          active |-> active, selected |-> selected, nextId |-> nextId]


\* what an invocation leaves behind: the scene, how it ended ("returned":
\* a plain return of None, "raised": an exception reaches the caller), the
\* line the control flow ended at ("no_mesh": line 180, "no_verts": line
\* 185, "no_method": line 235, "done": line 253), the new object, the point
\* set, the new object's world vertices when the method's branch is done
\* (line 232 or 212), and the block number
Result(s, outcome, stage, method, block, points, built, number) ==
    [scene |-> s, outcome |-> outcome, stage |-> stage, method |-> method,
     block |-> block, points |-> points, built |-> built, number |-> number]

create_collision_block(s, method, use_selected_mesh_name, auto_focus, offset, rotation) ==
    LET current_mode == s.mode
        obj == s.active
    IN
    IF obj = None \/ ~IsMesh(s.objects[obj])
    THEN {Result(s, "returned", "no_mesh", "", None, <<>>, <<>>, 0)}
    ELSE
    LET selected_verts == get_selected_vertices(s, obj) IN
    IF Len(selected_verts) = 0
    THEN {Result(s, "returned", "no_verts", "", None, <<>>, <<>>, 0)}
    ELSE
    LET block_number == BlockNumber(s.objects, use_selected_mesh_name, Prefix, CustomName)
        block_name == generate_block_name(s.objects[obj].name, use_selected_mesh_name,
                                          Prefix, CustomName, block_number)
        previous_selection == IF ~auto_focus THEN s.selected ELSE {}
        active_obj == obj
        finish(b) ==
            LET named == Rename(b, b.nextId - 1, block_name)
                id == b.nextId - 1
            IN  Result(Place(named, id, offset, rotation, auto_focus,
                             previous_selection, active_obj, current_mode),
                       "returned", "done", method, id, selected_verts,
                       WorldVerts(named.objects[id]), block_number)
    IN
    IF method = "convex"
    THEN {finish(BuildConvex(s, selected_verts, E)) : E \in PcaOrientations(selected_verts)}
    ELSE IF method = "box"
    THEN {finish(BuildBox(s, selected_verts))}
    ELSE \* new_block is unbound at line 235: UnboundLocalError
         {Result(create_material_if_needed(s), "raised", "no_method", method, None,
                 selected_verts, <<>>, block_number)}

Snapshot(s) == [objects |-> s.objects, materials |-> s.materials, mode |-> s.mode,
                active |-> s.active, selected |-> s.selected]

SetScene(s) ==
    /\ objects' = s.objects
    /\ materials' = s.materials
    /\ mode' = s.mode
    /\ active' = s.active
    /\ selected' = s.selected
    /\ nextId' = s.nextId

Methods == {"convex", "box", "sphere"}

\* offsets (one unit along X is 2 in half units) and Euler rotations
Offsets == {Zero3, <<2, 0, 0>>}

Rotations == {Identity, QuarterZ}

\* the values the properties are drawn from; 'sphere' stands for a selector
\* that is neither 'convex' nor 'box'; the naming mode is the default one
\* (custom names are drawn in the naming specification)
PropsChoices ==
    [method : Methods, use_selected_mesh_name : {"true"},
     auto_focus : BOOLEAN, offset : Offsets, rotation : Rotations]

\* OBJECT_OT_create_collision_block.execute (lines 274-286)
CreateCollisionBlock ==
    \E r \in create_collision_block(Scene, props.method, props.use_selected_mesh_name,
                                    props.auto_focus, props.offset, props.rotation) :
        /\ SetScene(r.scene)
        /\ calls' = calls + 1
        /\ last' = [op |-> "create", outcome |-> r.outcome, stage |-> r.stage,
                    method |-> r.method, again |-> FALSE,
                    block |-> r.block, points |-> r.points, built |-> r.built,
                    shift |-> Zero3, pre |-> Snapshot(Scene)]
        /\ generated' = IF r.number > 0 /\ props.use_selected_mesh_name = "true"
                        THEN Append(generated, r.number) ELSE generated
        /\ UNCHANGED props

----------------------------------------------------------------------------
(* The host                                                                *)

\* the user deletes an object the add-on created
HostRemoveObject(id) ==
    /\ id \in DOMAIN objects
    /\ id > 2
    /\ mode = "OBJECT"
    /\ objects' = [i \in (DOMAIN objects) \ {id} |-> objects[i]]
    /\ selected' = selected \ {id}
    /\ active' = IF active = id THEN None ELSE active
    /\ last' = [op |-> "remove", outcome |-> "returned", stage |-> "",
                method |-> "", again |-> FALSE,
                block |-> None, points |-> <<>>, built |-> <<>>,
                shift |-> Zero3, pre |-> Snapshot(Scene)]
    /\ UNCHANGED <<materials, mode, nextId, props, calls, generated>>

\* move_origin_to_geometry_center applied once more to a mesh object
HostRecenter(id) ==
    /\ id \in DOMAIN objects
    /\ IsMesh(objects[id])
    /\ SetScene(move_origin_to_geometry_center(Scene, id))
    /\ last' = [op |-> "recenter", outcome |-> "returned", stage |-> "",
                method |-> "",
                again |-> last.op \in {"create", "recenter"} /\ last.block = id,
                block |-> id, points |-> <<>>, built |-> <<>>,
                shift |-> OriginShift(objects[id]), pre |-> Snapshot(Scene)]
    /\ UNCHANGED <<props, calls, generated>>

----------------------------------------------------------------------------
(* Initial scenes                                                          *)

\* a pyramid on a rhombus, with one vertex strictly inside
Pyramid == << <<6, 0, 0>>, <<-6, 0, 0>>, <<0, 4, 0>>, <<0, -4, 0>>,
              <<0, 0, 4>>, <<0, 0, 2>> >>

\* a flat rectangle: zero thickness along Z
Rectangle == << <<0, 0, 0>>, <<4, 0, 0>>, <<0, 2, 0>>, <<4, 2, 0>> >>

\* one point, repeated
Repeated == << <<2, 2, 2>>, <<2, 2, 2>>, <<2, 2, 2>> >>

SourceMeshes == {Pyramid, Rectangle, Repeated, <<>>}

SourceLocations == {Zero3, <<4, 0, 0>>}

SourceObject(verts, vsel, loc) ==
    [name |-> <<"Cube">>, type |-> "MESH", verts |-> verts, edges |-> {},
     faces |-> {}, vselect |-> vsel, loc |-> loc, rot |-> Identity, scale |-> 1,
     mats |-> <<>>]

Camera ==
    [name |-> <<"Camera">>, type |-> "CAMERA", verts |-> <<>>, edges |-> {},
     faces |-> {}, vselect |-> {}, loc |-> Zero3, rot |-> Identity, scale |-> 1,
     mats |-> <<>>]

NoOp == [op |-> "init", outcome |-> "returned", stage |-> "", method |-> "",
         again |-> FALSE, block |-> None,
         points |-> <<>>, built |-> <<>>, shift |-> Zero3,
         pre |-> [objects |-> <<>>, materials |-> {}, mode |-> "OBJECT",
                  active |-> None, selected |-> {}]]

\* Object 1 is a mesh, object 2 a camera.  Edit and sculpt mode need the
\* mesh to be active; in edit mode all of its vertices or none are selected.
Init ==
    /\ \E verts \in SourceMeshes, loc \in SourceLocations :
       \E vsel \in {1..Len(verts), {}} :
          objects = <<SourceObject(verts, vsel, loc), Camera>>
    /\ materials \in {{}, {MaterialName}}
    /\ active \in {None, 1, 2}
    /\ mode \in {"OBJECT", "EDIT_MESH", "SCULPT"}
    /\ active # 1 => mode = "OBJECT"
    /\ mode # "EDIT_MESH" => objects[1].vselect = 1..Len(objects[1].verts)
    /\ selected \in SUBSET {1}
    /\ nextId = 3
    /\ props \in PropsChoices
    /\ calls = 0
    /\ last = NoOp
    /\ generated = <<>>

Next ==
    \/ calls < MaxCalls /\ CreateCollisionBlock
    \/ \E id \in DOMAIN objects : HostRemoveObject(id)
    \/ \E id \in DOMAIN objects : HostRecenter(id)

Spec == Init /\ [][Next]_vars

\* Naming: one scene, blocks created in either naming mode with the default
\* prefix and custom name and no placement parameters, and blocks deleted by
\* the user.
InitNaming ==
    /\ objects = <<SourceObject(Pyramid, 1..Len(Pyramid), Zero3), Camera>>
    /\ materials = {}
    /\ active = 1
    /\ mode = "OBJECT"
    /\ selected \in SUBSET {1}
    /\ nextId = 3
    /\ props \in [method : {"convex", "box"}, use_selected_mesh_name : {"true", "false"},
                  auto_focus : BOOLEAN, offset : {Zero3}, rotation : {Identity}]
    /\ calls = 0
    /\ last = NoOp
    /\ generated = <<>>

NextNaming ==
    \/ calls < MaxNamedCalls /\ CreateCollisionBlock
    \/ \E id \in DOMAIN objects : HostRemoveObject(id)

SpecNaming == InitNaming /\ [][NextNaming]_vars

----------------------------------------------------------------------------
(* Sanity of the model                                                     *)

\* Every halving is exact: the bounds of an object's vertices, in local and
\* in world coordinates, have an even sum on every axis.
ExactArithmetic ==
    \A id \in DOMAIN objects :
        LET o == objects[id] IN
        Len(o.verts) > 0 =>
            \A k \in Axes :
                /\ (MinCorner(o.verts)[k] + MaxCorner(o.verts)[k]) % 2 = 0
                /\ (MinCorner(WorldVerts(o))[k] + MaxCorner(WorldVerts(o))[k]) % 2 = 0

\* Every point set the 'convex' branch can be run on has a diagonal
\* covariance, so that PcaOrientations gives its eigenvectors.
InputsCovered ==
    (active # None /\ IsMesh(objects[active]) /\ props.method = "convex") =>
        LET pts == get_selected_vertices(Scene, active)
        IN  Len(pts) > 0 => DiagonalCov(pts)

----------------------------------------------------------------------------
(* Claims                                                                  *)

Created == last.op = "create" /\ last.block # None

LastBlock == objects[last.block]

\* the point set is not contained in a plane
Spans3D(pts) ==
    \E a \in SeqToSet(pts), b \in SeqToSet(pts), c \in SeqToSet(pts), d \in SeqToSet(pts) :
        Orient(a, b, c, d) # 0

\* p is in the convex hull of the point sequence W, for W spanning 3 dimensions
InsideHull(W, p) ==
    \A a \in SeqToSet(W), b \in SeqToSet(W), c \in SeqToSet(W) :
        (~Collinear(a, b, c) /\ \A i \in 1..Len(W) : Orient(a, b, c, W[i]) >= 0)
            => Orient(a, b, c, p) >= 0

Unchanged(id) ==
    /\ id \in DOMAIN objects
    /\ objects[id].verts = last.pre.objects[id].verts
    /\ objects[id].loc = last.pre.objects[id].loc
    /\ objects[id].rot = last.pre.objects[id].rot
    /\ objects[id].scale = last.pre.objects[id].scale

SceneAsBefore ==
    /\ objects = last.pre.objects
    /\ materials = last.pre.materials
    /\ mode = last.pre.mode
    /\ active = last.pre.active
    /\ selected = last.pre.selected

\* C1: with method 'box' the invocation completes and the new object, when
\* the box branch is done, has exactly 8 vertices, every world coordinate of
\* which is the minimum or the maximum of the input points on its axis, both
\* attained, so that every input point lies inside the box; with no offset
\* and no rotation that is also the object's final world placement.
C1_BoxExtent ==
    (last.op = "create" /\ last.method = "box") =>
        LET lo == MinCorner(last.points)
            hi == MaxCorner(last.points)
        IN  /\ last.outcome = "returned"
            /\ last.block \in DOMAIN objects
            /\ Len(last.built) = 8
            /\ \A i \in 1..8, k \in Axes : last.built[i][k] \in {lo[k], hi[k]}
            /\ MinCorner(last.built) = lo
            /\ MaxCorner(last.built) = hi
            /\ \A i \in 1..Len(last.points), k \in Axes :
                   /\ MinCorner(last.built)[k] <= last.points[i][k]
                   /\ last.points[i][k] <= MaxCorner(last.built)[k]
            /\ (props.offset = Zero3 /\ props.rotation = Identity)
                   => WorldVerts(LastBlock) = last.built

\* a box around a point set of zero thickness along Z and not along X
C1_Witness ==
    /\ last.op = "create" /\ last.method = "box"
    /\ MinCorner(last.points)[3] = MaxCorner(last.points)[3]
    /\ MinCorner(last.points)[1] < MaxCorner(last.points)[1]
    /\ Len(last.built) = 8

\* C2: with method 'convex', no offset and no rotation, for a point set that
\* spans 3 dimensions, the new object at its final world placement contains
\* every input point.
C2_HullContainsPoints ==
    (Created /\ last.method = "convex" /\ Spans3D(last.points)
        /\ props.offset = Zero3 /\ props.rotation = Identity)
    => \A i \in 1..Len(last.points) :
           InsideHull(WorldVerts(LastBlock), last.points[i])

\* C3: an invocation that builds a block creates exactly one object and
\* leaves the vertices, location, rotation and scale of every object that
\* existed before as they were.
C3_OnlyOneNewObject ==
    Created =>
        /\ (DOMAIN objects) \ (DOMAIN last.pre.objects) = {last.block}
        /\ \A id \in DOMAIN last.pre.objects : Unchanged(id)

\* C4: with a method that is neither 'convex' nor 'box' the invocation ends
\* with an error and the scene is exactly as before: no object and no
\* material created, nothing modified.
C4_InvalidMethodAtomic ==
    (last.op = "create" /\ last.stage = "no_method") =>
        /\ last.outcome = "raised"
        /\ SceneAsBefore

\* C5: with method 'convex' and a non-empty point set that does not span 3
\* dimensions the invocation ends with an error, no object is created and
\* the mode is as before.
C5_DegenerateRejected ==
    (last.op = "create" /\ last.method = "convex" /\ ~Spans3D(last.points)) =>
        /\ last.outcome = "raised"
        /\ DOMAIN objects = DOMAIN last.pre.objects
        /\ mode = last.pre.mode

\* C6: with an empty point set the invocation ends with an error, an outcome
\* other than that of a successful invocation, and the scene, the selection
\* and the mode are as before.
C6_EmptyRejected ==
    (last.op = "create" /\ last.stage = "no_verts") =>
        /\ last.outcome = "raised"
        /\ SceneAsBefore

\* C7: every vertex of a mesh made by create_convex_hull has an incident
\* face (and so an incident edge): the filter has deleted the vertices the
\* hull left without edges.
C7_NoIsolatedVertex ==
    (Created /\ last.method = "convex") =>
        \A i \in 1..Len(LastBlock.verts) :
            /\ LinkFaces(LastBlock, i) # {}
            /\ LinkEdges(LastBlock, i) # {}

\* a hull whose point set had a vertex the filter deleted
C7_Witness ==
    /\ Created /\ last.method = "convex"
    /\ Len(LastBlock.verts) > 0
    /\ Len(LastBlock.verts) < Len(last.points)

\* C8: with no rotation, after the bake and the recentre the new object's
\* location is the centre of the bounds of its vertices' world positions
\* before the bake plus the offset, its local bounds are centred on the
\* origin, its rotation is the identity and every vertex is at its world
\* position before the bake plus the offset.
C8_BakeThenRecenter ==
    (Created /\ props.rotation = Identity /\ Len(last.built) > 0) =>
        LET baked == [i \in 1..Len(last.built) |-> VAdd(last.built[i], props.offset)]
        IN  /\ LastBlock.loc = BoundsCenter(baked)
            /\ OriginShift(LastBlock) = Zero3
            /\ LastBlock.rot = Identity
            /\ WorldVerts(LastBlock) = baked

\* C9: a recentre step applied to an object right after a recentre step on
\* the same object (the one that ends an invocation, or one applied by hand)
\* finds a centre shift of (0,0,0) and leaves the object's location and
\* local vertex coordinates as they were.
C9_RecenterIdempotent ==
    (last.op = "recenter" /\ last.again) =>
        /\ last.shift = Zero3
        /\ objects[last.block].loc = last.pre.objects[last.block].loc
        /\ objects[last.block].verts = last.pre.objects[last.block].verts

\* a second recentre in a row of an object that has vertices and lies away
\* from the world origin
C9_Witness ==
    /\ last.op = "recenter" /\ last.again
    /\ last.pre.objects[last.block].loc # Zero3
    /\ Len(objects[last.block].verts) > 0
    /\ objects[last.block].loc # Zero3

\* C10: the block numbers computed by successive invocations in active-name
\* mode are strictly increasing.
C10_NumbersIncrease ==
    \A i \in 1..Len(generated), j \in 1..Len(generated) :
        i < j => generated[i] < generated[j]

====
